---- MODULE Spec2Model ----
(***************************************************************************)
(* A model of sdg2_app.py, the SDG 2 dashboard: the generator of the four  *)
(* tables (generate_sdg2_data), the cached load of the tables, and the     *)
(* six views with their widgets.  Every run of the script (the first one,  *)
(* and one per widget interaction) is one action.                          *)
(*                                                                         *)
(* Floats are fixed-point integers: rates in tenths of a percent point,    *)
(* productions in tenths, food security levels in hundredths, growth rates in     *)
(* hundredths of a percent; divisions round down.  random.uniform draws    *)
(* come from a small congruential generator whose seed is chosen in Init,  *)
(* as the interpreter seeds `random` from the system's entropy.            *)
(***************************************************************************)
EXTENDS Integers, Sequences, FiniteSets, TLC

VARIABLES
    rng,              \* state of the `random` module's generator
    np_rng,           \* state of numpy's global generator
    cache,            \* st.cache_data's entry for generate_sdg2_data
    loaded,           \* whether the script has run once (the cache is filled)
    df,               \* the module-level tables as the last run left them
    page,             \* the selectbox "Select Analysis View"
    selected_region,  \* selectbox of Hunger & Undernourishment
    selected_country, \* selectbox of Food Security
    selected_year,    \* slider of Regional Comparison
    selected_regions, \* multiselect of Regional Comparison
    out,              \* what the last run derived for its view
    err               \* the exception that ended the last run, or "none"

vars == <<rng, np_rng, cache, loaded, df, page, selected_region,
          selected_country, selected_year, selected_regions, out, err>>

----------------------------------------------------------------------------
(* Bounds of the model *)

MaxSeed == 2

MaxNpSeed == 0

MaxK == 3

----------------------------------------------------------------------------
(* Fixed-point units and the generators *)

\* The generator of `random`: a congruential generator of RngMod states.  A
\* draw is one of RngLevels + 1 evenly spaced floats of [0, 1], from the
\* state's high bits.
RngMod == 1024

RngLevels == 20

\* numpy's generator, of NpMod states; a draw is one of NpMod floats of [0, 1)
NpMod == 2

\* float('nan'), as an empty pivot cell and as a rate that is no number
NaN == -1000000

RngStep(s) == (5 * s + 3) % RngMod

RngOut(s) == (s * (RngLevels + 1)) \div RngMod

RECURSIVE RngStates(_, _)
\* The next n states of the generator in state s (built by halves, which
\* keeps the recursion shallow).
RngStates(s, n) ==
    IF n = 0 THEN <<>>
    ELSE IF n = 1 THEN <<RngStep(s)>>
    ELSE LET h == n \div 2
             a == RngStates(s, h)
         IN  a \o RngStates(a[h], n - h)

\* random.uniform(lo, hi) = lo + (hi - lo) * random(), of the draw u; both
\* ends can come out.
Uniform(lo, hi, u) == lo + ((hi - lo) * u) \div RngLevels

\* np.random.uniform(lo, hi), of [lo, hi)
NpUniform(lo, hi, u) == lo + ((hi - lo) * u) \div NpMod

\* The sequence q, with every element evaluated once
Eval(q) == q \o <<>>

Max(a, b) == IF a >= b THEN a ELSE b

Min(a, b) == IF a <= b THEN a ELSE b

----------------------------------------------------------------------------
(* generate_sdg2_data *)

years_short == [i \in 1..8 |-> 2014 + i]

\* list(range(2015, 2024))
years == [i \in 1..9 |-> 2014 + i]

regions == <<"Sub-Saharan Africa", "Asia", "Latin America", "North America",
             "Europe", "Oceania">>

crops == <<"Cereals", "Fruits", "Vegetables", "Meat", "Dairy", "Fish">>

countries == <<"Kenya", "India", "Brazil", "Nigeria", "Bangladesh", "Ethiopia",
               "Tanzania", "Pakistan", "Afghanistan", "Madagascar">>

indicators == <<"Stunting", "Wasting", "Overweight">>

\* base_rate, in tenths
base_rate(region) ==
    CASE region = "Sub-Saharan Africa" -> 250
      [] region = "Asia" -> 120
      [] region = "Latin America" -> 80
      [] region = "North America" -> 30
      [] region = "Europe" -> 20
      [] region = "Oceania" -> 40

\* base_rates[indicator][region], in tenths
base_rates(indicator, region) ==
    CASE indicator = "Stunting" ->
           (CASE region = "Sub-Saharan Africa" -> 350
              [] region = "Asia" -> 250
              [] region = "Latin America" -> 150
              [] region = "North America" -> 50
              [] region = "Europe" -> 30
              [] region = "Oceania" -> 80)
      [] indicator = "Wasting" ->
           (CASE region = "Sub-Saharan Africa" -> 80
              [] region = "Asia" -> 120
              [] region = "Latin America" -> 40
              [] region = "North America" -> 20
              [] region = "Europe" -> 10
              [] region = "Oceania" -> 30)
      [] indicator = "Overweight" ->
           (CASE region = "Sub-Saharan Africa" -> 50
              [] region = "Asia" -> 80
              [] region = "Latin America" -> 120
              [] region = "North America" -> 150
              [] region = "Europe" -> 130
              [] region = "Oceania" -> 180)

UnderRateUnclamped(region, year, u) ==
    base_rate(region) + (0 - 5) * (year - 2015) + Uniform(-10, 10, u)

\* rate = max(0, base_rate[region] + trend + noise), in tenths
UnderRate(region, year, u) ==
    Max(0, base_rate(region) + (0 - 5) * (year - 2015) + Uniform(-10, 10, u))

RECURSIVE Growth(_)
\* 1.02 ** k, in ten-thousandths
Growth(k) == IF k = 0 THEN 10000 ELSE (Growth(k - 1) * 102) \div 100

ProductionOfNoFloor(ub, year, u) ==
    (((Uniform(100, 500, ub) * Growth(year - 2015)) \div 1000)
       * Uniform(0, 1050, u)) \div 1000

\* production = base_production * growth * noise, in tenths;
\* base_production = uniform(100, 500), noise = uniform(0.95, 1.05)
ProductionOf(ub, year, u) ==
    (((Uniform(100, 500, ub) * Growth(year - 2015)) \div 1000)
       * Uniform(950, 1050, u)) \div 1000

\* level = max(1, min(4, base_level + trend + uniform(-0.2, 0.2))), in hundredths
LevelOf(year, ub, un) ==
    Max(100, Min(400, Uniform(150, 350, ub) + (0 - 5) * (year - 2015)
                        + Uniform(-20, 20, un)))

\* random.uniform(5, 40), in tenths
PopulationOf(u) == Uniform(50, 400, u)

NutritionRateSameTrend(indicator, region, year, u) ==
    Max(0, base_rates(indicator, region) + (0 - 3) * (year - 2015)
             + Uniform(-5, 5, u))

\* rate = max(0, base_rates[indicator][region] + trend + noise), in tenths
NutritionRate(indicator, region, year, u) ==
    Max(0, base_rates(indicator, region)
             + (IF indicator # "Overweight" THEN 0 - 3 ELSE 2) * (year - 2015)
             + Uniform(-5, 5, u))

\* The four tables, rows in the order the loops append them, and the
\* generator's state after the last draw.
generate_sdg2_data(s) ==
    LET ny == Len(years)
        nr == Len(regions)
        nc == Len(crops)
        nk == Len(countries)
        ni == Len(indicators)
        n1 == nr * ny
        n2 == nc * (ny + 1)
        n3 == nk * ny * 3
        n4 == nr * ni * ny
        states == RngStates(s, n1 + n2 + n3 + n4)
        st == Eval([i \in 1..Len(states) |-> RngOut(states[i])])
        undernourishment_data ==
          Eval(
            [i \in 1..(nr * ny) |->
                LET r == ((i - 1) \div ny) + 1
                    y == ((i - 1) % ny) + 1
                IN  [Year |-> years[y], Region |-> regions[r],
                     Undernourishment_Rate |->
                         UnderRate(regions[r], years[y], st[i])]])
        food_production_data ==
          Eval(
            [i \in 1..(nc * ny) |->
                LET c == ((i - 1) \div ny) + 1
                    y == ((i - 1) % ny) + 1
                    b == n1 + (c - 1) * (ny + 1) + 1
                IN  [Year |-> years[y], Crop |-> crops[c],
                     Production |-> ProductionOf(st[b], years[y], st[b + y]),
                     Unit |-> "Million Tonnes"]])
        food_security_data ==
          Eval(
            [i \in 1..(nk * ny) |->
                LET k == ((i - 1) \div ny) + 1
                    y == ((i - 1) % ny) + 1
                    b == n1 + n2 + (i - 1) * 3
                IN  [Year |-> years[y], Country |-> countries[k],
                     Food_Security_Level |->
                         LevelOf(years[y], st[b + 1], st[b + 2]),
                     Population_Affected |-> PopulationOf(st[b + 3])]])
        nutrition_data ==
          Eval(
            [i \in 1..(nr * ni * ny) |->
                LET r == ((i - 1) \div (ni * ny)) + 1
                    j == (((i - 1) \div ny) % ni) + 1
                    y == ((i - 1) % ny) + 1
                IN  [Year |-> years[y], Region |-> regions[r],
                     Indicator |-> indicators[j],
                     Rate |-> NutritionRate(indicators[j], regions[r],
                                            years[y], st[n1 + n2 + n3 + i])]])
    IN  [undernourishment_df |-> undernourishment_data,
         production_df |-> food_production_data,
         security_df |-> food_security_data,
         nutrition_df |-> nutrition_data,
         rng |-> IF n1 + n2 + n3 + n4 = 0 THEN s
                 ELSE states[n1 + n2 + n3 + n4]]

Tables(g) ==
    [undernourishment_df |-> g.undernourishment_df,
     production_df |-> g.production_df,
     security_df |-> g.security_df,
     nutrition_df |-> g.nutrition_df]

NoTables ==
    [undernourishment_df |-> <<>>, production_df |-> <<>>,
     security_df |-> <<>>, nutrition_df |-> <<>>]

----------------------------------------------------------------------------
(* pandas, as far as the script uses it.  A table is the sequence of its   *)
(* rows, a row a record of its columns.                                    *)

RECURSIVE SortedSeq(_)
\* The numbers of S in ascending order.
SortedSeq(S) ==
    IF S = {} THEN <<>>
    ELSE LET m == CHOOSE x \in S : \A y \in S : x <= y
         IN  <<m>> \o SortedSeq(S \ {m})

Column(t, c) == Eval([i \in 1..Len(t) |-> t[i][c]])

Range(q) == {q[i] : i \in 1..Len(q)}

\* Series.unique(): the values in the order of their first appearance
Unique(q) ==
    LET first(v) == CHOOSE i \in 1..Len(q) : q[i] = v /\ \A j \in 1..(i - 1) : q[j] # v
        order == SortedSeq({first(v) : v \in Range(q)})
    IN  Eval([k \in 1..Len(order) |-> q[order[k]]])

RECURSIVE SumSeq(_)
SumSeq(q) ==
    IF Len(q) = 0 THEN 0
    ELSE IF Len(q) = 1 THEN q[1]
    ELSE LET h == Len(q) \div 2
         IN  SumSeq(SubSeq(q, 1, h)) + SumSeq(SubSeq(q, h + 1, Len(q)))

\* Series.mean() as the exact fraction num / den; den = 0 is NaN (the mean
\* of no value).
Mean(q) == [num |-> SumSeq(q), den |-> Len(q)]

\* a - b of two means; NaN if either is
MeanSub(a, b) == [num |-> a.num * b.den - b.num * a.den, den |-> a.den * b.den]

\* x > 0 of a float: False for NaN
Positive(x) == x.den > 0 /\ x.num > 0

\* DataFrame.pivot(index, columns, values): ValueError on a duplicated
\* (index, columns) pair, NaN in a cell no row fills.
Pivot(t, index, columns, values) ==
    LET rows == Range(Column(t, index))
        cols == Range(Column(t, columns))
        keys == {<<t[i][index], t[i][columns]>> : i \in 1..Len(t)}
    IN  IF Cardinality(keys) < Len(t)
        THEN [error |-> "ValueError", index |-> {}, columns |-> {},
              cells |-> <<>>]
        ELSE [error |-> "none", index |-> rows, columns |-> cols,
              cells |-> [r \in rows |->
                  LET tr == SelectSeq(t, LAMBDA x : x[index] = r)
                  IN  [c \in cols |->
                         IF \E i \in 1..Len(tr) : tr[i][columns] = c
                         THEN tr[CHOOSE i \in 1..Len(tr) : tr[i][columns] = c][values]
                         ELSE NaN]]]

Rank2Descending(q, i) ==
    2 * Cardinality({j \in 1..Len(q) : q[j] > q[i]})
      + Cardinality({j \in 1..Len(q) : q[j] = q[i]}) + 1

Rank2Min(q, i) ==
    2 * Cardinality({j \in 1..Len(q) : q[j] < q[i]}) + 2

\* Series.rank(): ascending, ties get the average of their positions.
\* Twice the rank, which is a whole number.
Rank2(q, i) ==
    2 * Cardinality({j \in 1..Len(q) : q[j] < q[i]})
      + Cardinality({j \in 1..Len(q) : q[j] = q[i]}) + 1

RECURSIVE MergeFrom(_, _, _, _)
MergeFrom(left, right, on, i) ==
    IF i > Len(left) THEN <<>>
    ELSE LET m == SelectSeq(right, LAMBDA r : r[on] = left[i][on])
         IN  Eval([k \in 1..Len(m) |-> left[i] @@ m[k]])
               \o MergeFrom(left, right, on, i + 1)

\* left.merge(right, on=...): the inner join, in the order of the left rows
Merge(left, right, on) == MergeFrom(left, right, on, 1)

\* DataFrame.sort_values(col): ascending; rows with equal keys keep their
\* order (numpy sorts a short array by insertion).
SortValues(t, col) ==
    LET pos(i) == Cardinality({j \in 1..Len(t) : t[j][col] < t[i][col]})
                    + Cardinality({j \in 1..(i - 1) : t[j][col] = t[i][col]}) + 1
    IN  Eval([k \in 1..Len(t) |-> t[CHOOSE i \in 1..Len(t) : pos(i) = k]])

\* df[cols]
Project(t, cols) == Eval([i \in 1..Len(t) |-> [c \in cols |-> t[i][c]]])

\* An object store: the DataFrame each name refers to.  Column assignment
\* changes the object in place; filters, merges and copies make new objects.
NewFrame(s, name, rows) ==
    [n \in DOMAIN s \cup {name} |-> IF n = name THEN rows ELSE s[n]]

\* frame[col] = values
SetColumn(s, name, col, values) ==
    [s EXCEPT ![name] = Eval([i \in 1..Len(s[name]) |->
                                 (col :> values[i]) @@ s[name][i]])]

GlobalNames ==
    {"undernourishment_df", "production_df", "security_df", "nutrition_df"}

Globals(s) == [n \in GlobalNames |-> s[n]]

----------------------------------------------------------------------------
(* The views.  Each gives the module-level tables as the run leaves them,  *)
(* what it derived, the exception that ended it ("none" if none did) and   *)
(* numpy's generator state.                                                *)

pages == <<"Overview", "Hunger & Undernourishment", "Food Production",
           "Food Security", "Nutrition Status", "Regional Comparison">>

InYear(t, year) == SelectSeq(t, LAMBDA r : r.Year = year)

Failed(t, pg, e, np) == [df |-> t, out |-> [page |-> pg], err |-> e, np |-> np]

\* if page == "Overview"
Overview(t, np) ==
    LET u23 == InYear(t.undernourishment_df, 2023)
        latest_undernourishment == Mean(Column(u23, "Undernourishment_Rate"))
        total_production ==
            SumSeq(Column(InYear(t.production_df, 2023), "Production"))
        crisis_countries ==
            Len(SelectSeq(t.security_df,
                    LAMBDA r : r.Year = 2023 /\ r.Food_Security_Level >= 300))
        avg_stunting ==
            Mean(Column(SelectSeq(t.nutrition_df,
                    LAMBDA r : r.Year = 2023 /\ r.Indicator = "Stunting"), "Rate"))
        global_trend ==
            [y \in Range(Column(t.undernourishment_df, "Year")) |->
                Mean(Column(InYear(t.undernourishment_df, y),
                            "Undernourishment_Rate"))]
    IN  [df |-> t,
         out |-> [page |-> "Overview",
                  latest_undernourishment |-> latest_undernourishment,
                  total_production |-> total_production,
                  crisis_countries |-> crisis_countries,
                  avg_stunting |-> avg_stunting,
                  global_trend |-> global_trend,
                  regional_data |-> u23],
         err |-> "none", np |-> np]

\* undernourishment_df.pivot(index='Region', columns='Year',
\*                           values='Undernourishment_Rate')
HungerPivot(t) ==
    Pivot(t.undernourishment_df, "Region", "Year", "Undernourishment_Rate")

\* elif page == "Hunger & Undernourishment"; region is the selectbox's value
Hunger(t, region, np) ==
    LET pivot_data == HungerPivot(t)
    IN  IF pivot_data.error # "none"
        THEN Failed(t, "Hunger & Undernourishment", pivot_data.error, np)
        ELSE [df |-> t,
              out |-> [page |-> "Hunger & Undernourishment",
                       latest_data |-> InYear(t.undernourishment_df, 2023),
                       pivot_data |-> pivot_data,
                       filtered_data |->
                           SelectSeq(t.undernourishment_df,
                                     LAMBDA r : r.Region = region)],
              err |-> "none", np |-> np]

RECURSIVE IsqrtIn(_, _, _)
IsqrtIn(n, lo, hi) ==
    IF lo >= hi THEN lo
    ELSE LET mid == (lo + hi + 1) \div 2
         IN  IF mid * mid <= n THEN IsqrtIn(n, mid, hi)
             ELSE IsqrtIn(n, lo, mid - 1)

\* The square root of n, rounded down
Isqrt(n) == IsqrtIn(n, 0, Min(n, 46340))

\* float('inf'), of a division of a positive float by 0.0
Inf == 1000000

GrowthRateByDifference(first_year, last_year) ==
    ((last_year - first_year) * 100) \div 8

\* ((last_year / first_year) ** (1/8) - 1) * 100, in hundredths of a percent.
\* The quotient is in ten-thousandths; the eighth root is three square roots.
\* numpy's floats divide by zero to inf or nan and do not raise.
GrowthRate(first_year, last_year) ==
    IF first_year = 0 THEN (IF last_year > 0 THEN Inf ELSE NaN)
    ELSE IF last_year < 0 \/ first_year < 0 THEN NaN
    ELSE LET q == (last_year * 10000) \div first_year
         IN  Isqrt(Isqrt(Isqrt(q * 10000) * 10000) * 10000) - 10000

ProductionInAnyYear(production, crop, year) ==
    Column(SelectSeq(production, LAMBDA r : r.Crop = crop), "Production")

\* crop_data[crop_data['Year'] == year]['Production']
ProductionIn(production, crop, year) ==
    Column(SelectSeq(SelectSeq(production, LAMBDA r : r.Crop = crop),
                     LAMBDA r : r.Year = year), "Production")

\* One turn of the growth rate loop: .iloc[0] of no row raises IndexError.
AnnualGrowthRate(production, crop) ==
    LET first == ProductionIn(production, crop, 2015)
        last == ProductionIn(production, crop, 2023)
    IN  IF Len(first) = 0 \/ Len(last) = 0
        THEN [error |-> "IndexError", Crop |-> crop, Growth_Rate |-> NaN]
        ELSE [error |-> "none", Crop |-> crop,
              Growth_Rate |-> GrowthRate(first[1], last[1])]

RECURSIVE Productivity(_)
\* 100 * 1.03 ** k, in hundredths
Productivity(k) == IF k = 0 THEN 10000 ELSE (Productivity(k - 1) * 103) \div 100

\* elif page == "Food Production"
FoodProduction(t, np) ==
    LET cs == Unique(Column(t.production_df, "Crop"))
        growth_rates ==
            Eval([i \in 1..Len(cs) |-> AnnualGrowthRate(t.production_df, cs[i])])
    IN  IF \E i \in 1..Len(cs) : growth_rates[i].error # "none"
        THEN Failed(t, "Food Production", "IndexError", np)
        ELSE [df |-> t,
              out |-> [page |-> "Food Production",
                       latest_production |-> InYear(t.production_df, 2023),
                       growth_df |-> Project(growth_rates, {"Crop", "Growth_Rate"}),
                       productivity_df |->
                           [i \in 1..9 |-> [Year |-> 2014 + i,
                                            Productivity_Index |-> Productivity(i - 1)]]],
              err |-> "none", np |-> np]

\* .map({1: 'Minimal', 2: 'Stressed', 3: 'Crisis', 4: 'Emergency'})
LevelName(level) ==
    CASE level = 100 -> "Minimal"
      [] level = 200 -> "Stressed"
      [] level = 300 -> "Crisis"
      [] level = 400 -> "Emergency"
      [] OTHER -> "NaN"

\* elif page == "Food Security"; country is the selectbox's value
FoodSecurity(t, country, np) ==
    LET latest_security == InYear(t.security_df, 2023)
        levels == SortedSeq(Range(Column(latest_security, "Food_Security_Level")))
        counts == Eval([i \in 1..Len(levels) |->
                     [Food_Security_Level |-> levels[i],
                      Count |-> Len(SelectSeq(latest_security,
                          LAMBDA r : r.Food_Security_Level = levels[i]))]])
        s1 == NewFrame(t, "security_counts", counts)
        s2 == SetColumn(s1, "security_counts", "Level_Name",
                        [i \in 1..Len(levels) |-> LevelName(levels[i])])
        total_affected ==
            [y \in Range(Column(t.security_df, "Year")) |->
                SumSeq(Column(InYear(t.security_df, y), "Population_Affected"))]
    IN  [df |-> Globals(s2),
         out |-> [page |-> "Food Security",
                  latest_security |-> latest_security,
                  security_counts |-> s2["security_counts"],
                  country_data |-> SelectSeq(s2["security_df"],
                                             LAMBDA r : r.Country = country),
                  total_affected |-> total_affected],
         err |-> "none", np |-> np]

ProgressSameDirection(nutrition, indicator) ==
    LET d == SelectSeq(nutrition, LAMBDA r : r.Indicator = indicator)
        change == MeanSub(Mean(Column(InYear(d, 2015), "Rate")),
                          Mean(Column(InYear(d, 2023), "Rate")))
    IN  [Indicator |-> indicator, Change |-> change,
         Direction |-> IF Positive(change) THEN "Improving" ELSE "Worsening",
         Target |-> "Decrease"]

\* One turn of the progress tracking loop
Progress(nutrition, indicator) ==
    LET indicator_data == SelectSeq(nutrition, LAMBDA r : r.Indicator = indicator)
        start_value == Mean(Column(InYear(indicator_data, 2015), "Rate"))
        end_value == Mean(Column(InYear(indicator_data, 2023), "Rate"))
        change == IF indicator = "Overweight"
                  THEN MeanSub(end_value, start_value)
                  ELSE MeanSub(start_value, end_value)
    IN  [Indicator |-> indicator, Change |-> change,
         Direction |-> IF Positive(change) THEN "Improving" ELSE "Worsening",
         Target |-> "Decrease"]

NutritionPivotAllYears(t) ==
    Pivot(t.nutrition_df, "Region", "Indicator", "Rate")

\* latest_nutrition.pivot(index='Region', columns='Indicator', values='Rate')
NutritionPivot(t) ==
    Pivot(InYear(t.nutrition_df, 2023), "Region", "Indicator", "Rate")

\* elif page == "Nutrition Status"
Nutrition(t, np) ==
    LET latest_nutrition == InYear(t.nutrition_df, 2023)
        is == Range(Column(latest_nutrition, "Indicator"))
        avg_by_indicator ==
            [i \in is |-> Mean(Column(SelectSeq(latest_nutrition,
                                  LAMBDA r : r.Indicator = i), "Rate"))]
        nutrition_pivot == NutritionPivot(t)
        all == Unique(Column(t.nutrition_df, "Indicator"))
    IN  IF nutrition_pivot.error # "none"
        THEN Failed(t, "Nutrition Status", nutrition_pivot.error, np)
        ELSE [df |-> t,
              out |-> [page |-> "Nutrition Status",
                       stunting_data |-> SelectSeq(latest_nutrition,
                                             LAMBDA r : r.Indicator = "Stunting"),
                       avg_by_indicator |-> avg_by_indicator,
                       nutrition_pivot |-> nutrition_pivot,
                       progress_df |-> [i \in 1..Len(all) |->
                                           Progress(t.nutrition_df, all[i])]],
              err |-> "none", np |-> np]

NpAt(s, n) == (s + n) % NpMod

\* 100 - rate * 3 and 100 - rate * 2, in tenths
UndernourishmentVal(rate) == 1000 - rate * 3

StuntingVal(rate) == 1000 - rate * 2

\* The values of one region's radar trace: the i-th selected region takes
\* the draws 2i-1 and 2i of this run from numpy's generator.
RadarValues(year_undernourishment, year_nutrition, region, np, i) ==
    LET u == Column(SelectSeq(year_undernourishment,
                        LAMBDA r : r.Region = region), "Undernourishment_Rate")
        n == Column(SelectSeq(year_nutrition,
                        LAMBDA r : r.Region = region /\ r.Indicator = "Stunting"),
                    "Rate")
    IN  IF Len(u) = 0 \/ Len(n) = 0
        THEN [error |-> "IndexError", name |-> region, r |-> <<>>]
        ELSE [error |-> "none", name |-> region,
              r |-> <<UndernourishmentVal(u[1]), StuntingVal(n[1]),
                      NpUniform(600, 950, NpAt(np, 2 * i - 1)),
                      NpUniform(700, 900, NpAt(np, 2 * i))>>]

\* frame[col] = frame[of].rank()
SetRank(s, name, col, of) ==
    SetColumn(s, name, col,
              Eval([i \in 1..Len(s[name]) |-> Rank2(Column(s[name], of), i)]))

RankingDataInPlace(s) ==
    LET s1 == SetRank(s, "undernourishment_df", "Undernourishment_Rank",
                      "Undernourishment_Rate")
    IN  NewFrame(s1, "ranking_data", s1["undernourishment_df"])

\* ranking_data = year_undernourishment.copy()
\* ranking_data['Undernourishment_Rank'] = ...rank()
RankingData(s) ==
    SetRank(NewFrame(s, "ranking_data", s["year_undernourishment"]),
            "ranking_data", "Undernourishment_Rank", "Undernourishment_Rate")

\* stunting_ranks = year_nutrition[...Stunting].copy(), its rank column, and
\* the projection on Region and Stunting_Rank
StuntingRanks(s) ==
    LET s1 == NewFrame(s, "stunting_ranks",
                  SelectSeq(s["year_nutrition"],
                            LAMBDA r : r.Indicator = "Stunting"))
        s2 == SetRank(s1, "stunting_ranks", "Stunting_Rank", "Rate")
    IN  NewFrame(s2, "stunting_ranks",
                 Project(s2["stunting_ranks"], {"Region", "Stunting_Rank"}))

\* final_ranking: the merge on Region, Overall_Score and the sort.  Ranks are
\* kept doubled and Overall_Score, their mean, fourfold: whole numbers.
FinalRanking(s) ==
    LET s1 == StuntingRanks(RankingData(s))
        s2 == NewFrame(s1, "final_ranking",
                  Merge(s1["ranking_data"], s1["stunting_ranks"], "Region"))
        s3 == SetColumn(s2, "final_ranking", "Overall_Score",
                  Eval([i \in 1..Len(s2["final_ranking"]) |->
                           s2["final_ranking"][i].Undernourishment_Rank
                             + s2["final_ranking"][i].Stunting_Rank]))
    IN  NewFrame(s3, "final_ranking", SortValues(s3["final_ranking"], "Overall_Score"))

default_regions == {"Sub-Saharan Africa", "Asia", "Europe"}

\* year_undernourishment['Region'].tolist(), the multiselect's options
RegionOptions(t, year) == Column(InYear(t.undernourishment_df, year), "Region")

\* elif page == "Regional Comparison"; year is the slider's value and sel the
\* multiselect's, taken in the order of the options
Regional(t, year, sel, np) ==
    LET s1 == NewFrame(t, "year_undernourishment",
                       InYear(t.undernourishment_df, year))
        s2 == NewFrame(s1, "year_nutrition", InYear(t.nutrition_df, year))
        stunting ==
            SelectSeq(s2["year_nutrition"], LAMBDA r : r.Indicator = "Stunting")
        stunting_data ==
            Eval([i \in 1..Len(stunting) |->
                     [Region |-> stunting[i].Region,
                      Stunting_Rate |-> stunting[i].Rate]])
        comparison_data == Merge(s2["year_undernourishment"], stunting_data, "Region")
        options == Column(s2["year_undernourishment"], "Region")
        chosen == SelectSeq(Unique(options), LAMBDA r : r \in sel)
        traces == Eval([i \in 1..Len(chosen) |->
                     RadarValues(s2["year_undernourishment"], s2["year_nutrition"],
                                 chosen[i], np, i)])
        bad == {i \in 1..Len(chosen) : traces[i].error # "none"}
        s3 == FinalRanking(s2)
    IN  IF ~(default_regions \subseteq Range(options))
        THEN Failed(t, "Regional Comparison", "StreamlitAPIException", np)
        ELSE IF bad # {}
        THEN Failed(t, "Regional Comparison", "IndexError",
                    NpAt(np, 2 * ((CHOOSE i \in bad : \A j \in bad : i <= j) - 1)))
        ELSE [df |-> Globals(s3),
              out |-> [page |-> "Regional Comparison",
                       comparison_data |-> comparison_data,
                       radar |-> traces,
                       final_ranking |->
                           Project(s3["final_ranking"],
                               {"Region", "Undernourishment_Rate",
                                "Undernourishment_Rank", "Stunting_Rank",
                                "Overall_Score"})],
              err |-> "none", np |-> NpAt(np, 2 * Len(chosen))]

\* One run of the script on the cached tables t
RunScript(t, pg, region, country, year, sel, np) ==
    CASE pg = "Overview" -> Overview(t, np)
      [] pg = "Hunger & Undernourishment" -> Hunger(t, region, np)
      [] pg = "Food Production" -> FoodProduction(t, np)
      [] pg = "Food Security" -> FoodSecurity(t, country, np)
      [] pg = "Nutrition Status" -> Nutrition(t, np)
      [] pg = "Regional Comparison" -> Regional(t, year, sel, np)

\* A selectbox shows its first option until another is chosen
FirstOption(q) == IF Len(q) = 0 THEN "none" ELSE q[1]

RegionChoices(t) == Unique(Column(t.undernourishment_df, "Region"))

CountryChoices(t) == Unique(Column(t.security_df, "Country"))

----------------------------------------------------------------------------

Init ==
    /\ rng \in 0..MaxSeed
    /\ np_rng \in 0..MaxNpSeed
    /\ cache = NoTables
    /\ loaded = FALSE
    /\ df = NoTables
    /\ page = "Overview"
    /\ selected_region = "none"
    /\ selected_country = "none"
    /\ selected_year = 2023
    /\ selected_regions = {}
    /\ out = [page |-> "none"]
    /\ err = "none"

\* The state after a run of the script with these widget values
Ran(t, pg, region, country, year, sel) ==
    \E r \in {RunScript(t, pg, region, country, year, sel, np_rng)} :
        /\ df' = r.df
        /\ out' = r.out
        /\ err' = r.err
        /\ np_rng' = r.np
        /\ page' = pg
        /\ selected_region' = region
        /\ selected_country' = country
        /\ selected_year' = year
        /\ selected_regions' = sel

\* The first run: generate_sdg2_data runs and st.cache_data keeps its result
Startup ==
    /\ ~loaded
    /\ \E g \in {generate_sdg2_data(rng % RngMod)} :
           /\ rng' = g.rng
           /\ cache' = Tables(g)
           /\ Ran(Tables(g), "Overview", "none", "none", 2023, {})
    /\ loaded' = TRUE

\* Another view is selected: its widgets show their defaults
SelectPage(pg) ==
    /\ loaded
    /\ pg # page
    /\ Ran(cache, pg,
           IF pg = "Hunger & Undernourishment"
           THEN FirstOption(RegionChoices(cache)) ELSE "none",
           IF pg = "Food Security"
           THEN FirstOption(CountryChoices(cache)) ELSE "none",
           2023,
           IF pg = "Regional Comparison" THEN default_regions ELSE {})
    /\ UNCHANGED <<rng, cache, loaded>>

\* "Select Region for Details"
SelectRegion(region) ==
    /\ loaded
    /\ page = "Hunger & Undernourishment"
    /\ err = "none"
    /\ region \in Range(RegionChoices(cache))
    /\ region # selected_region
    /\ Ran(cache, page, region, "none", 2023, {})
    /\ UNCHANGED <<rng, cache, loaded>>

\* "Select Country"
SelectCountry(country) ==
    /\ loaded
    /\ page = "Food Security"
    /\ err = "none"
    /\ country \in Range(CountryChoices(cache))
    /\ country # selected_country
    /\ Ran(cache, page, "none", country, 2023, {})
    /\ UNCHANGED <<rng, cache, loaded>>

\* "Select Year": the multiselect keeps its value while its options stay
SelectYear(year) ==
    /\ loaded
    /\ page = "Regional Comparison"
    /\ year \in 2015..2023
    /\ year # selected_year
    /\ Ran(cache, page, "none", "none", year,
           IF RegionOptions(cache, year) = RegionOptions(cache, selected_year)
           THEN selected_regions ELSE default_regions)
    /\ UNCHANGED <<rng, cache, loaded>>

\* "Select Regions for Comparison": a region is added or removed
ToggleRegion(region) ==
    /\ loaded
    /\ page = "Regional Comparison"
    /\ err # "StreamlitAPIException"
    /\ region \in Range(RegionOptions(cache, selected_year))
    /\ Ran(cache, page, "none", "none", selected_year,
           IF region \in selected_regions
           THEN selected_regions \ {region}
           ELSE selected_regions \cup {region})
    /\ UNCHANGED <<rng, cache, loaded>>

Next ==
    \/ Startup
    \/ \E pg \in Range(pages) : SelectPage(pg)
    \/ \E region \in Range(regions) : SelectRegion(region)
    \/ \E country \in Range(countries) : SelectCountry(country)
    \/ \E year \in 2015..2023 : SelectYear(year)
    \/ \E region \in Range(regions) : ToggleRegion(region)

Spec == Init /\ [][Next]_vars

----------------------------------------------------------------------------
(* The derivations on tables other than the generated ones: a generated    *)
(* table with rows dropped or rates replaced, loaded in place of the       *)
(* cached one, and the views run on it.                                    *)

MaxArbSeed == 0

ArbInput(kind, keys, ys, vs, ws) ==
    [kind : {kind}, key : keys, year : ys, v : vs, w : ws]

ArbInputs ==
    ArbInput("none", {"none"}, {0}, {0}, {0})
      \cup ArbInput("drop_production", {"Cereals", "Fish"}, {2015, 2019, 2023},
                    {0}, {0})
      \cup ArbInput("under_rate", {"Asia"}, {2015, 2023}, {333, 334, 400}, {0})
      \cup ArbInput("stunting_rate", {"Asia"}, {2015, 2023}, {500, 505, 600}, {0})
      \cup ArbInput("indicator_ends", Range(indicators), {0}, {50, 100}, {50, 100})
      \cup ArbInput("drop_indicator_year", Range(indicators), {2015, 2023},
                    {0}, {0})

\* The table t with the value v in the column col of the records that have
\* the values of key
SetRate(t, col, key, v) ==
    Eval([i \in 1..Len(t) |->
             IF \A f \in DOMAIN key : t[i][f] = key[f]
             THEN [t[i] EXCEPT ![col] = v] ELSE t[i]])

Perturbed(t, p) ==
    CASE p.kind = "none" -> t
      [] p.kind = "drop_production" ->
           [t EXCEPT !.production_df =
               SelectSeq(@, LAMBDA r : ~(r.Crop = p.key /\ r.Year = p.year))]
      [] p.kind = "under_rate" ->
           [t EXCEPT !.undernourishment_df =
               SetRate(@, "Undernourishment_Rate",
                       [Region |-> p.key, Year |-> p.year], p.v)]
      [] p.kind = "stunting_rate" ->
           [t EXCEPT !.nutrition_df =
               SetRate(@, "Rate",
                       [Region |-> p.key, Year |-> p.year,
                        Indicator |-> "Stunting"], p.v)]
      [] p.kind = "indicator_ends" ->
           [t EXCEPT !.nutrition_df =
               SetRate(SetRate(@, "Rate",
                               [Indicator |-> p.key, Year |-> 2015], p.v),
                       "Rate", [Indicator |-> p.key, Year |-> 2023], p.w)]
      [] p.kind = "drop_indicator_year" ->
           [t EXCEPT !.nutrition_df =
               SelectSeq(@, LAMBDA r : ~(r.Indicator = p.key /\ r.Year = p.year))]

InitArb ==
    \E seed \in 0..MaxArbSeed, p \in ArbInputs :
      \E g \in {generate_sdg2_data(seed % RngMod)} :
        \E t \in {Perturbed(Tables(g), p)} :
          \E r \in {RunScript(t, "Overview", "none", "none", 2023, {}, 0)} :
            /\ rng = g.rng
            /\ np_rng = r.np
            /\ cache = t
            /\ loaded = TRUE
            /\ df = r.df
            /\ page = "Overview"
            /\ selected_region = "none"
            /\ selected_country = "none"
            /\ selected_year = 2023
            /\ selected_regions = {}
            /\ out = r.out
            /\ err = r.err

NextArb ==
    \/ \E pg \in Range(pages) : SelectPage(pg)
    \/ \E region \in Range(regions) : SelectRegion(region)
    \/ \E country \in Range(countries) : SelectCountry(country)
    \/ \E year \in 2015..2023 : SelectYear(year)

SpecArb == InitArb /\ [][NextArb]_vars

----------------------------------------------------------------------------
(* The claims *)

\* The keys of a table: its rows cut down to the columns cols
KeysOf(t, cols) == {[c \in cols |-> t[i][c]] : i \in 1..Len(t)}

\* C1: after generate_sdg2_data each table holds exactly one record per key
\* combination and no other: 54 (year, region) records of undernourishment,
\* 54 (year, crop) of production, 90 (year, country) of food security and
\* 162 (year, region, indicator) of nutrition, for the years 2015..2023.
OneRecordPerKey ==
    loaded =>
      /\ Cardinality(Range(regions)) = 6 /\ Cardinality(Range(crops)) = 6
      /\ Cardinality(Range(countries)) = 10 /\ Cardinality(Range(indicators)) = 3
      /\ Len(cache.undernourishment_df) = 54
      /\ KeysOf(cache.undernourishment_df, {"Year", "Region"})
           = [Year : 2015..2023, Region : Range(regions)]
      /\ Len(cache.production_df) = 54
      /\ KeysOf(cache.production_df, {"Year", "Crop"})
           = [Year : 2015..2023, Crop : Range(crops)]
      /\ Len(cache.security_df) = 90
      /\ KeysOf(cache.security_df, {"Year", "Country"})
           = [Year : 2015..2023, Country : Range(countries)]
      /\ Len(cache.nutrition_df) = 162
      /\ KeysOf(cache.nutrition_df, {"Year", "Region", "Indicator"})
           = [Year : 2015..2023, Region : Range(regions),
              Indicator : Range(indicators)]

\* The tables are generated, and the last year's last record is there.
GeneratedTables ==
    /\ loaded
    /\ \E i \in 1..Len(cache.nutrition_df) :
         /\ cache.nutrition_df[i].Year = 2023
         /\ cache.nutrition_df[i].Region = "Oceania"
         /\ cache.nutrition_df[i].Indicator = "Overweight"

\* C2: every generated record has Undernourishment_Rate >= 0, Rate >= 0,
\* Production >= 0, Population_Affected in [5, 40] and Food_Security_Level
\* in [1, 4].
ValuesInRange ==
    loaded =>
      /\ \A i \in 1..Len(cache.undernourishment_df) :
           cache.undernourishment_df[i].Undernourishment_Rate >= 0
      /\ \A i \in 1..Len(cache.nutrition_df) : cache.nutrition_df[i].Rate >= 0
      /\ \A i \in 1..Len(cache.production_df) :
           cache.production_df[i].Production >= 0
      /\ \A i \in 1..Len(cache.security_df) :
           /\ cache.security_df[i].Population_Affected >= 50
           /\ cache.security_df[i].Population_Affected <= 400
           /\ cache.security_df[i].Food_Security_Level >= 100
           /\ cache.security_df[i].Food_Security_Level <= 400

\* Generated tables in which the clamps act: a rate of 0 where base, trend
\* and noise add up to less, and both ends of the population's interval.
ClampedValues ==
    /\ loaded
    /\ \E i \in 1..Len(cache.undernourishment_df) :
         /\ cache.undernourishment_df[i].Undernourishment_Rate = 0
         /\ cache.undernourishment_df[i].Region = "Europe"
    /\ \E i \in 1..Len(cache.nutrition_df) : cache.nutrition_df[i].Rate = 0
    /\ \E i \in 1..Len(cache.security_df) :
         cache.security_df[i].Population_Affected = 50
    /\ \E i \in 1..Len(cache.security_df) :
         cache.security_df[i].Population_Affected = 400

\* C3: the four tables are created once and never change: whatever views
\* and filter values are selected, the tables are after every run what they
\* were after the generation.
TablesNeverChange == [][loaded => (cache' = cache /\ df' = df)]_vars

\* The ranking of another year than the default was derived (filters,
\* copies, merge and rank columns), after the generation.
RankingDerived ==
    /\ loaded
    /\ page = "Regional Comparison"
    /\ err = "none"
    /\ selected_year = 2019
    /\ Len(out.final_ranking) = 6
    /\ df = cache

\* The rate of the records of the generated tables with a key
UnderRateOf(region, year) ==
    {r.Undernourishment_Rate :
        r \in {x \in Range(cache.undernourishment_df) :
                  x.Region = region /\ x.Year = year}}

NutritionRateOf(region, indicator, year) ==
    {r.Rate : r \in {x \in Range(cache.nutrition_df) :
                        x.Region = region /\ x.Indicator = indicator
                          /\ x.Year = year}}

\* C4: the pivots of the generated tables do not fail and leave no cell
\* empty: Region x Year of undernourishment is 6 x 9, each cell the rate of
\* the one record with that key; Region x Indicator of the 2023 nutrition
\* records is 6 x 3, each cell filled.
PivotsFilled ==
    /\ page = "Hunger & Undernourishment" =>
         /\ err = "none"
         /\ out.pivot_data.error = "none"
         /\ out.pivot_data.index = Range(regions)
         /\ out.pivot_data.columns = 2015..2023
         /\ Cardinality(out.pivot_data.index) = 6
         /\ \A r \in out.pivot_data.index, y \in out.pivot_data.columns :
              /\ out.pivot_data.cells[r][y] # NaN
              /\ UnderRateOf(r, y) = {out.pivot_data.cells[r][y]}
              /\ Cardinality({i \in 1..Len(cache.undernourishment_df) :
                    /\ cache.undernourishment_df[i].Region = r
                    /\ cache.undernourishment_df[i].Year = y}) = 1
    /\ page = "Nutrition Status" =>
         /\ err = "none"
         /\ out.nutrition_pivot.error = "none"
         /\ out.nutrition_pivot.index = Range(regions)
         /\ out.nutrition_pivot.columns = Range(indicators)
         /\ \A r \in out.nutrition_pivot.index, i \in out.nutrition_pivot.columns :
              /\ out.nutrition_pivot.cells[r][i] # NaN
              /\ NutritionRateOf(r, i, 2023) = {out.nutrition_pivot.cells[r][i]}

\* The undernourishment heatmap was pivoted from a generated table.
HungerPivoted ==
    /\ loaded
    /\ page = "Hunger & Undernourishment"
    /\ out.pivot_data.error = "none"
    /\ out.pivot_data.cells["Sub-Saharan Africa"][2015] > 0

\* The one value of a set of one value
The(S) == CHOOSE x \in S : TRUE

\* C6: in the ranking of any selected year, a region whose undernourishment
\* rate and stunting rate are both strictly less than another's has a
\* strictly smaller Overall_Score and comes before it.
RankDominance ==
    (page = "Regional Comparison" /\ err = "none") =>
      \A a, b \in 1..Len(out.final_ranking) :
        LET A == out.final_ranking[a].Region
            B == out.final_ranking[b].Region
        IN  (/\ The(UnderRateOf(A, selected_year)) < The(UnderRateOf(B, selected_year))
             /\ The(NutritionRateOf(A, "Stunting", selected_year))
                  < The(NutritionRateOf(B, "Stunting", selected_year)))
              => (/\ out.final_ranking[a].Overall_Score
                       < out.final_ranking[b].Overall_Score
                  /\ a < b)

\* A ranking in which Europe is below Sub-Saharan Africa in both rates.
DominatedPair ==
    /\ page = "Regional Comparison"
    /\ err = "none"
    /\ The(UnderRateOf("Europe", selected_year))
         < The(UnderRateOf("Sub-Saharan Africa", selected_year))
    /\ The(NutritionRateOf("Europe", "Stunting", selected_year))
         < The(NutritionRateOf("Sub-Saharan Africa", "Stunting", selected_year))
    /\ \E a, b \in 1..Len(out.final_ranking) :
         /\ out.final_ranking[a].Region = "Europe"
         /\ out.final_ranking[b].Region = "Sub-Saharan Africa"

\* Twice the average of the positions, counted from 1, that the value v takes
\* among the values vs in ascending order (vs[r] for every region r)
AveragePosition2(vs, v) ==
    LET less == Cardinality({r \in DOMAIN vs : vs[r] < v})
        same == Cardinality({r \in DOMAIN vs : vs[r] = v})
    IN  (less + 1) + (less + same)

\* C7: for any selected year the ranking has one row per region (6 rows),
\* each rank is the ascending position of the region's rate, tied rates
\* taking the average of their positions, Overall_Score is the mean of the
\* two ranks, and the rows are in the order of Overall_Score.  (The model
\* keeps twice the ranks and four times the score.)
RankingShape ==
    (page = "Regional Comparison" /\ err = "none") =>
      LET fr == out.final_ranking
          us == [r \in Range(regions) |-> The(UnderRateOf(r, selected_year))]
          ss == [r \in Range(regions) |->
                    The(NutritionRateOf(r, "Stunting", selected_year))]
      IN  /\ Len(fr) = 6
          /\ {fr[i].Region : i \in 1..Len(fr)} = Range(regions)
          /\ \A i \in 1..Len(fr) :
               /\ fr[i].Undernourishment_Rate = us[fr[i].Region]
               /\ fr[i].Undernourishment_Rank = AveragePosition2(us, us[fr[i].Region])
               /\ fr[i].Stunting_Rank = AveragePosition2(ss, ss[fr[i].Region])
               /\ fr[i].Overall_Score * 2
                    = (fr[i].Undernourishment_Rank + fr[i].Stunting_Rank) * 2
          /\ \A i \in 1..(Len(fr) - 1) : fr[i].Overall_Score <= fr[i + 1].Overall_Score

\* A ranking of a year other than the default in which two regions tie in
\* the undernourishment rate, and so share the average of two positions.
TiedRanks ==
    /\ page = "Regional Comparison"
    /\ err = "none"
    /\ selected_year = 2022
    /\ \E a, b \in 1..Len(out.final_ranking) :
         /\ a # b
         /\ out.final_ranking[a].Undernourishment_Rate
              = out.final_ranking[b].Undernourishment_Rate
         /\ out.final_ranking[a].Undernourishment_Rank
              = out.final_ranking[b].Undernourishment_Rank
         /\ out.final_ranking[a].Undernourishment_Rank % 2 = 1

\* The mean of the rates of an indicator in a year over the loaded table,
\* as the sum and the number of its records
RateSum(indicator, year) ==
    SumSeq(Column(SelectSeq(cache.nutrition_df,
               LAMBDA r : r.Indicator = indicator /\ r.Year = year), "Rate"))

RateCount(indicator, year) ==
    Cardinality({i \in 1..Len(cache.nutrition_df) :
                    /\ cache.nutrition_df[i].Indicator = indicator
                    /\ cache.nutrition_df[i].Year = year})

\* mean at year a minus mean at year b, of an indicator, times both counts
MeanDifference(indicator, a, b) ==
    RateSum(indicator, a) * RateCount(indicator, b)
      - RateSum(indicator, b) * RateCount(indicator, a)

NoGrowthRateWithoutEnds ==
    page = "Food Production" =>
      LET cs == {cache.production_df[i].Crop : i \in 1..Len(cache.production_df)}
          has(crop, year) ==
              \E i \in 1..Len(cache.production_df) :
                  /\ cache.production_df[i].Crop = crop
                  /\ cache.production_df[i].Year = year
      IN  IF \E crop \in cs : ~has(crop, 2015) \/ ~has(crop, 2023)
          THEN err # "none" /\ "growth_df" \notin DOMAIN out
          ELSE /\ err = "none"
               /\ {out.growth_df[i].Crop : i \in 1..Len(out.growth_df)} = cs
               /\ \A i \in 1..Len(out.growth_df) : out.growth_df[i].Growth_Rate # NaN

\* The growth rate analysis of a table that has records of Cereals but none
\* of 2015 has failed.
GrowthRateFailed ==
    /\ page = "Food Production"
    /\ err = "IndexError"
    /\ \E i \in 1..Len(cache.production_df) : cache.production_df[i].Crop = "Cereals"
    /\ \A i \in 1..Len(cache.production_df) :
         ~(cache.production_df[i].Crop = "Cereals"
             /\ cache.production_df[i].Year = 2015)

\* The production table with every value of a crop multiplied by k
Scaled(production, crop, k) ==
    Eval([i \in 1..Len(production) |->
             IF production[i].Crop = crop
             THEN [production[i] EXCEPT !.Production = @ * k]
             ELSE production[i]])

\* The production table with the value v for a crop in a year
WithProduction(production, crop, year, v) ==
    Eval([i \in 1..Len(production) |->
             IF production[i].Crop = crop /\ production[i].Year = year
             THEN [production[i] EXCEPT !.Production = v]
             ELSE production[i]])

\* C10: the growth rate shown for a crop is unchanged when every production
\* value of the crop is multiplied by a positive k, and when the value of a
\* year between 2015 and 2023 is replaced by another.
GrowthRateScaleInvariant ==
    (page = "Food Production" /\ err = "none") =>
      \A i \in 1..Len(out.growth_df) :
        LET crop == out.growth_df[i].Crop
            rate == out.growth_df[i].Growth_Rate
        IN  /\ \A k \in 1..MaxK :
                 AnnualGrowthRate(Scaled(cache.production_df, crop, k), crop).Growth_Rate
                   = rate
            /\ \A year \in 2016..2022 :
                 AnnualGrowthRate(WithProduction(cache.production_df, crop, year, 0),
                                  crop).Growth_Rate = rate

\* Growth rates were computed, one of them not zero, from a table in which
\* the production grew.
GrowthRatesShown ==
    /\ page = "Food Production"
    /\ err = "none"
    /\ Len(out.growth_df) = 6
    /\ \E i \in 1..Len(out.growth_df) :
         /\ out.growth_df[i].Growth_Rate > 0
         /\ out.growth_df[i].Growth_Rate < Inf

\* C11: every generated undernourishment rate is max(0, base[region]
\* - 0.5 * (year - 2015) + n) for a noise n in [-1, 1], and every generated
\* nutrition rate is max(0, base[indicator][region] + t * (year - 2015) + n)
\* for a noise n in [-0.5, 0.5], with t = +0.2 for Overweight and t = -0.3
\* for Stunting and Wasting (rates, trends and noise in tenths).
RatesFollowTrend ==
    loaded =>
      /\ \A i \in 1..Len(cache.undernourishment_df) :
           LET r == cache.undernourishment_df[i]
           IN  \E n \in -10..10 :
                 r.Undernourishment_Rate
                   = Max(0, base_rate(r.Region) - 5 * (r.Year - 2015) + n)
      /\ \A i \in 1..Len(cache.nutrition_df) :
           LET r == cache.nutrition_df[i]
               t == IF r.Indicator = "Overweight" THEN 2 ELSE -3
           IN  /\ r.Indicator \in {"Stunting", "Wasting", "Overweight"}
               /\ \E n \in -5..5 :
                    r.Rate = Max(0, base_rates(r.Indicator, r.Region)
                                      + t * (r.Year - 2015) + n)

\* Generated tables in which the Overweight rate of Oceania has risen with
\* its trend by 2023, the Stunting rate of Asia has fallen, and the Wasting
\* rate of Europe is held at 0 by the clamp.
TrendsGenerated ==
    /\ loaded
    /\ \E i \in 1..Len(cache.nutrition_df) :
         /\ cache.nutrition_df[i].Indicator = "Overweight"
         /\ cache.nutrition_df[i].Region = "Oceania"
         /\ cache.nutrition_df[i].Year = 2023
         /\ cache.nutrition_df[i].Rate > 185
    /\ \E i \in 1..Len(cache.nutrition_df) :
         /\ cache.nutrition_df[i].Indicator = "Stunting"
         /\ cache.nutrition_df[i].Region = "Asia"
         /\ cache.nutrition_df[i].Year = 2023
         /\ cache.nutrition_df[i].Rate < 245
    /\ \E i \in 1..Len(cache.nutrition_df) :
         /\ cache.nutrition_df[i].Indicator = "Wasting"
         /\ cache.nutrition_df[i].Region = "Europe"
         /\ cache.nutrition_df[i].Rate = 0

\* C12: the progress computation subtracts in the same order for all three
\* indicators: Change is the 2015 mean minus the 2023 mean for Stunting,
\* Wasting and Overweight alike, or the 2023 mean minus the 2015 mean for
\* all of them.
ProgressSameOrder ==
    (page = "Nutrition Status" /\ err = "none") =>
      \/ \A i \in 1..Len(out.progress_df) :
           out.progress_df[i].Change.num
             = MeanDifference(out.progress_df[i].Indicator, 2015, 2023)
      \/ \A i \in 1..Len(out.progress_df) :
           out.progress_df[i].Change.num
             = MeanDifference(out.progress_df[i].Indicator, 2023, 2015)

\* The progress table of generated tables: the mean Overweight rate has risen
\* from 2015 to 2023 and the mean Stunting rate has fallen, and both rows read
\* "Improving" with a positive Change.
OverweightRiseImproving ==
    /\ loaded
    /\ page = "Nutrition Status"
    /\ err = "none"
    /\ MeanDifference("Overweight", 2023, 2015) > 0
    /\ MeanDifference("Stunting", 2015, 2023) > 0
    /\ \E i, j \in 1..Len(out.progress_df) :
         /\ out.progress_df[i].Indicator = "Overweight"
         /\ out.progress_df[i].Change.num > 0
         /\ out.progress_df[i].Direction = "Improving"
         /\ out.progress_df[j].Indicator = "Stunting"
         /\ out.progress_df[j].Change.num > 0
         /\ out.progress_df[j].Direction = "Improving"

\* The production values of the records of the generated table with a key
ProductionValuesOf(crop, year) ==
    {r.Production : r \in {x \in Range(cache.production_df) :
                              x.Crop = crop /\ x.Year = year}}

\* C13: on generated tables no run of any view fails, whatever views, year,
\* regions and country are selected: every crop has a record of 2015 and one
\* of 2023, every region has an undernourishment and a stunting record of
\* every year, the 2015 production of every crop is at least 95 (950
\* tenths), every growth rate shown is a finite number and every selected
\* region gets its radar values.
NoDerivationFails ==
    loaded =>
      /\ err = "none"
      /\ \A crop \in Range(crops) :
           /\ ProductionValuesOf(crop, 2015) # {}
           /\ ProductionValuesOf(crop, 2023) # {}
           /\ \A v \in ProductionValuesOf(crop, 2015) : v >= 950
      /\ \A region \in Range(regions), year \in 2015..2023 :
           /\ UnderRateOf(region, year) # {}
           /\ NutritionRateOf(region, "Stunting", year) # {}
      /\ page = "Food Production" =>
           /\ Len(out.growth_df) = Len(crops)
           /\ \A i \in 1..Len(out.growth_df) :
                /\ out.growth_df[i].Growth_Rate # NaN
                /\ out.growth_df[i].Growth_Rate # Inf
      /\ page = "Regional Comparison" =>
           /\ Len(out.radar) = Cardinality(selected_regions)
           /\ {out.radar[i].name : i \in 1..Len(out.radar)} = selected_regions
           /\ \A i \in 1..Len(out.radar) : Len(out.radar[i].r) = 4

\* The radar of all six regions in a year other than the default.
AllRegionsCompared ==
    /\ loaded
    /\ page = "Regional Comparison"
    /\ err = "none"
    /\ selected_year = 2015
    /\ selected_regions = Range(regions)
    /\ Len(out.radar) = 6

====
